---------------------------- MODULE Spec2Model ----------------------------
(***************************************************************************)
(* Model of the file-backed logger of src/utils/logger.ts (class Logger    *)
(* and its singleton `logger`).                                            *)
(*                                                                         *)
(* A log file is a sequence of complete lines.  A line is a token: ""      *)
(* is an empty line, "START" / "END" are the session markers, "DEBUG",     *)
(* "INFO", "WARN", "ERROR" are the first line of a record (timestamp and   *)
(* upper-cased level followed by the message's first line).  The lines     *)
(* that continue a record (serialized data, an error's text and stack, a   *)
(* curl command), the text of messages and timestamps are not modelled.    *)
(*                                                                         *)
(* LoggerConfig objects live in a heap (objs) because init stores the      *)
(* caller's object by reference (this.config = config).                    *)
(*                                                                         *)
(* fs.createWriteStream returns its WriteStream at once; the file is       *)
(* opened afterwards, and a failure to open it is reported on the stream,  *)
(* not thrown into init.  A stream therefore carries `ok`: whether its     *)
(* file could be opened.  What is written to a stream whose file could not *)
(* be opened reaches no file.  Chunks written to one stream reach the file *)
(* in the order of the write calls.  The 'error' event such a stream emits *)
(* later, for which the logger registers no listener, is outside the       *)
(* model: it ends the process and with it every behaviour shown here.      *)
(***************************************************************************)
EXTENDS Naturals, Sequences, FiniteSets

\* Bounds of the model.
MaxStreams == 2     \* streams created by init
MaxRecords == 1     \* records held by the files together

VARIABLES
  objs,        \* heap of the LoggerConfig objects the logger can reach
  config,      \* this.config: a reference into objs
  fileStream,  \* this.fileStream: 0 is undefined, else the id of a stream
  streams,     \* the WriteStreams created and not yet ended, by id
  nStreams,    \* number of streams created so far
  files,       \* content of each file, a sequence of lines
  last         \* history: the last call and how it ended

vars == <<objs, config, fileStream, streams, nStreams, files, last>>

\* References into the heap.  OwnCfg is the object the class creates for
\* itself (the field initializer), CallerCfg the object the caller passed to
\* the latest init.  An object this.config no longer refers to cannot be
\* reached by the logger any more and is dropped from the heap.
OwnCfg == "own"
CallerCfg == "caller"

LogLevel == {"debug", "info", "warn", "error"}

LOG_LEVEL_PRIORITY(level) ==
  CASE level = "debug" -> 0
    [] level = "info"  -> 1
    [] level = "warn"  -> 2
    [] level = "error" -> 3

\* config.file: absent, or a path.
NoFile == "<undefined>"
FileOpts == {NoFile, "a.log"}
DefaultPath == "tmp/ingest-music.log"
Paths == {DefaultPath, "a.log"}

\* What the file system does for one init: everything succeeds, mkdirSync
\* throws, or the file cannot be opened.
FsOutcomes == {"ok", "mkdirFail", "openFail"}

\* The first lines of records, and the number of records the files hold.
Headers == {"DEBUG", "INFO", "WARN", "ERROR"}
RecordsIn(f) == Cardinality({i \in 1..Len(f) : f[i] \in Headers})
RecordCount == RecordsIn(files[DefaultPath]) + RecordsIn(files["a.log"])

\* level.toUpperCase()
toUpperCase(level) ==
  CASE level = "debug" -> "DEBUG"
    [] level = "info"  -> "INFO"
    [] level = "warn"  -> "WARN"
    [] level = "error" -> "ERROR"

\* Mutant of shouldLog: a strict comparison.
shouldLogStrict(level) ==
  LOG_LEVEL_PRIORITY(level) > LOG_LEVEL_PRIORITY(objs[config].level)

shouldLog(level) ==
  LOG_LEVEL_PRIORITY(level) >= LOG_LEVEL_PRIORITY(objs[config].level)

\* The line that starts a record: the timestamp and the level are prefixed
\* to the message.
formatMessage(level) == <<toUpperCase(level)>>

\* stream.write(chunk) on the stream with id s, chunk being complete lines.
StreamWrite(s, lines) ==
  IF streams[s].ok
  THEN [files EXCEPT ![streams[s].path] = @ \o lines]
  ELSE files

\* Logger.write: the files after the call.
write(level) ==
  IF ~shouldLog(level) THEN files
  ELSE IF fileStream # 0
       THEN StreamWrite(fileStream, formatMessage(level))
       ELSE files

\* The outcome of a call: the files after it, whether it threw, whether it
\* called JSON.stringify.
Outcome(f, r, s) == [files |-> f, raised |-> r, ser |-> s]

\* Values handed to JSON.stringify: "undef" is undefined, "plain" a value it
\* serializes, "cyclic" a value it throws on (a circular structure, a BigInt).
\* "text" is a string and "Error" an instance of Error.
debug(data) ==
  IF data # "undef"
  THEN IF data = "cyclic"
       THEN Outcome(files, TRUE, TRUE)
       ELSE Outcome(write("debug"), FALSE, TRUE)
  ELSE Outcome(write("debug"), FALSE, FALSE)

info == Outcome(write("info"), FALSE, FALSE)

warn == Outcome(write("warn"), FALSE, FALSE)

error(err) ==
  IF err # "undef"
  THEN IF err = "Error"
       THEN Outcome(write("error"), FALSE, FALSE)
       ELSE IF err = "cyclic"
            THEN Outcome(files, TRUE, TRUE)
            ELSE Outcome(write("error"), FALSE, TRUE)
  ELSE Outcome(write("error"), FALSE, FALSE)

\* The headers only add text to the command, so they are not an input here.
logCurl(body) ==
  IF ~shouldLog("debug") THEN Outcome(files, FALSE, FALSE)
  ELSE IF body = "cyclic" THEN Outcome(files, TRUE, TRUE)
       ELSE LET r == debug("undef")
            IN Outcome(r.files, r.raised, body = "plain")

logApiResponse(response) ==
  IF ~shouldLog("debug") THEN Outcome(files, FALSE, FALSE)
  ELSE IF response = "cyclic" THEN Outcome(files, TRUE, TRUE)
       ELSE LET r == debug("undef")
            IN Outcome(r.files, r.raised, TRUE)

isDebugEnabled == objs[config].level = "debug"

\* The record of a call in `last`: the operation, whether it threw, whether
\* it called JSON.stringify, what it was called with (init: the configuration
\* and the file system's outcome; setDebug: its argument and the level
\* before the call; close: whether a stream was held) and, for
\* isDebugEnabled, what it returned.
Call(op, raised, ser, arg, ret) ==
  [op |-> op, raised |-> raised, ser |-> ser, arg |-> arg, ret |-> ret]

\* An emitting call whose outcome is r.
Emit(op, r) ==
  /\ r.files # files => RecordCount < MaxRecords
  /\ files' = r.files
  /\ last' = Call(op, r.raised, r.ser, FALSE, FALSE)
  /\ UNCHANGED <<objs, config, fileStream, streams, nStreams>>

\* ---------------------------------------------------------------- actions

Init ==
  /\ objs = [r \in {OwnCfg} |-> [level |-> "info", file |-> NoFile]]
  /\ config = OwnCfg
  /\ fileStream = 0
  /\ streams = [s \in {} |-> 0]
  /\ nStreams = 0
  /\ files = [p \in Paths |-> <<>>]
  /\ last = Call("new", FALSE, FALSE, FALSE, FALSE)

\* Mutant of EndCurrent: the current stream is not ended.
EndCurrentLeak == streams

\* Lines 32-35 of init: the streams left once the current one is ended.
EndCurrent ==
  [s \in DOMAIN streams \ {fileStream} |-> streams[s]]

\* config.file || path.join(os.tmpdir(), "ingest-music.log")
logFilePath(cfg) ==
  IF cfg.file \in {NoFile, ""} THEN DefaultPath ELSE cfg.file

\* Mutant of SessionStart: the marker without the line break before it.
SessionStartBare == <<"START">>

\* The chunk init writes to a stream it has opened.
SessionStart == <<"", "START">>

\* The chunk close writes.
SessionEnd == <<"END">>

\* Mutant of init: no try/catch, so what mkdirSync throws leaves init.
initNoCatch(cfg, fsOutcome) ==
  LET path == logFilePath(cfg)
      id == nStreams + 1
      s == [path |-> path, ok |-> fsOutcome = "ok", base |-> Len(files[path])]
  IN /\ nStreams < MaxStreams
     /\ objs' = [r \in {CallerCfg} |-> cfg]
     /\ config' = CallerCfg
     /\ IF fsOutcome = "mkdirFail"
        THEN /\ streams' = EndCurrent
             /\ fileStream' = 0
             /\ files' = files
             /\ nStreams' = nStreams
        ELSE /\ streams' = [i \in DOMAIN EndCurrent \cup {id} |->
                              IF i = id THEN s ELSE EndCurrent[i]]
             /\ fileStream' = id
             /\ files' = IF s.ok
                         THEN [files EXCEPT ![path] = @ \o SessionStart]
                         ELSE files
             /\ nStreams' = id
     /\ last' = Call("init", fsOutcome = "mkdirFail", FALSE,
                     [cfg |-> cfg, fs |-> fsOutcome], FALSE)

\* init(config), config being the object cfg of the caller.
init(cfg, fsOutcome) ==
  LET path == logFilePath(cfg)
      id == nStreams + 1
      s == [path |-> path, ok |-> fsOutcome = "ok", base |-> Len(files[path])]
  IN /\ nStreams < MaxStreams
     /\ objs' = [r \in {CallerCfg} |-> cfg]
     /\ config' = CallerCfg
     /\ IF fsOutcome = "mkdirFail"
        THEN /\ streams' = EndCurrent
             /\ fileStream' = 0
             /\ files' = files
             /\ nStreams' = nStreams
        ELSE /\ streams' = [i \in DOMAIN EndCurrent \cup {id} |->
                              IF i = id THEN s ELSE EndCurrent[i]]
             /\ fileStream' = id
             /\ files' = IF s.ok
                         THEN [files EXCEPT ![path] = @ \o SessionStart]
                         ELSE files
             /\ nStreams' = id
     /\ last' = Call("init", FALSE, FALSE, [cfg |-> cfg, fs |-> fsOutcome], FALSE)

\* init with a configuration object the caller has just created.
InitNew(level, file, fsOutcome) ==
  init([level |-> level, file |-> file], fsOutcome)

\* init with the object the caller passed to the latest init.
InitAgain(fsOutcome) ==
  /\ config = CallerCfg
  /\ init(objs[CallerCfg], fsOutcome)

\* Mutant of SetDebug: a threshold above info is left alone.
SetDebugKeepsHigher(enabled) ==
  /\ objs' = [objs EXCEPT ![config].level =
                IF enabled THEN "debug"
                ELSE IF @ \in {"warn", "error"} THEN @ ELSE "info"]
  /\ last' = Call("setDebug", FALSE, FALSE,
                   [enabled |-> enabled, was |-> objs[config].level], FALSE)
  /\ UNCHANGED <<config, fileStream, streams, nStreams, files>>

SetDebug(enabled) ==
  /\ objs' = [objs EXCEPT ![config].level = IF enabled THEN "debug" ELSE "info"]
  /\ last' = Call("setDebug", FALSE, FALSE,
                   [enabled |-> enabled, was |-> objs[config].level], FALSE)
  /\ UNCHANGED <<config, fileStream, streams, nStreams, files>>

IsDebugEnabled ==
  /\ last' = Call("isDebugEnabled", FALSE, FALSE, FALSE, isDebugEnabled)
  /\ UNCHANGED <<objs, config, fileStream, streams, nStreams, files>>

Debug(data) == Emit("debug", debug(data))

Info == Emit("info", info)

Warn == Emit("warn", warn)

Error(err) == Emit("error", error(err))

LogCurl(body) == Emit("logCurl", logCurl(body))

LogApiResponse(response) == Emit("logApiResponse", logApiResponse(response))

\* Mutant of Close: the marker is written, the stream is neither ended nor
\* forgotten.
CloseKeeps ==
  /\ IF fileStream # 0
     THEN /\ files' = StreamWrite(fileStream, SessionEnd)
          /\ UNCHANGED <<streams, fileStream>>
     ELSE UNCHANGED <<files, streams, fileStream>>
  /\ last' = Call("close", FALSE, FALSE, fileStream # 0, FALSE)
  /\ UNCHANGED <<objs, config, nStreams>>

\* Mutant of Close: the stream is ended as init ends it, without a marker.
CloseNoMarker ==
  /\ IF fileStream # 0
     THEN /\ files' = files
          /\ streams' = EndCurrent
          /\ fileStream' = 0
     ELSE UNCHANGED <<files, streams, fileStream>>
  /\ last' = Call("close", FALSE, FALSE, fileStream # 0, FALSE)
  /\ UNCHANGED <<objs, config, nStreams>>

Close ==
  /\ IF fileStream # 0
     THEN /\ files' = StreamWrite(fileStream, SessionEnd)
          /\ streams' = EndCurrent
          /\ fileStream' = 0
     ELSE UNCHANGED <<files, streams, fileStream>>
  /\ last' = Call("close", FALSE, FALSE, fileStream # 0, FALSE)
  /\ UNCHANGED <<objs, config, nStreams>>

Next ==
  \/ \E level \in LogLevel, file \in FileOpts, o \in FsOutcomes :
       InitNew(level, file, o)
  \/ \E o \in FsOutcomes : InitAgain(o)
  \/ \E enabled \in BOOLEAN : SetDebug(enabled)
  \/ IsDebugEnabled
  \/ \E data \in {"undef", "plain", "cyclic"} : Debug(data)
  \/ Info
  \/ Warn
  \/ \E err \in {"undef", "Error", "plain", "cyclic"} : Error(err)
  \/ \E body \in {"undef", "text", "plain", "cyclic"} : LogCurl(body)
  \/ \E response \in {"undef", "plain", "cyclic"} : LogApiResponse(response)
  \/ Close

Spec == Init /\ [][Next]_vars

\* ----------------------------------------------------------------- claims

EmitOps == {"debug", "info", "warn", "error", "logCurl", "logApiResponse"}

\* The level an emitting operation emits at.
LevelOf(op) == IF op \in {"debug", "logCurl", "logApiResponse"} THEN "debug" ELSE op

\* The level of an emitting operation is below the configured one.
Suppressed(op) ==
  LOG_LEVEL_PRIORITY(LevelOf(op)) < LOG_LEVEL_PRIORITY(objs[config].level)

\* The logger holds a stream whose file is open.
StreamOpen == fileStream # 0 /\ streams[fileStream].ok

\* The file the held stream appends to.
CurrentPath == streams[fileStream].path

IsPrefix(a, b) == Len(a) <= Len(b) /\ SubSeq(b, 1, Len(a)) = a

LastLine(f) == IF f = <<>> THEN "<none>" ELSE f[Len(f)]

\* The step appends exactly `lines` to the file at path p and nothing to the
\* other files.
AppendsTo(p, lines) ==
  files' = [files EXCEPT ![p] = @ \o lines]

\* C1 as stated: a call that emits at a level below the configured one
\* appends nothing to any file; a call at a level at or above it appends
\* exactly one record to the open stream's file.
C1_Original ==
  [][last'.op \in EmitOps =>
       IF Suppressed(last'.op)
       THEN files' = files
       ELSE StreamOpen =>
              AppendsTo(CurrentPath, <<toUpperCase(LevelOf(last'.op))>>)]_vars

\* C1 as amended: a call that emits at a level below the configured one
\* appends nothing to any file; a call at a level at or above it that returns
\* appends exactly one record to the open stream's file, and one whose
\* argument JSON.stringify throws on leaves the call and appends nothing.
C1_LevelGate ==
  [][last'.op \in EmitOps =>
       IF Suppressed(last'.op) \/ last'.raised
       THEN files' = files
       ELSE StreamOpen =>
              AppendsTo(CurrentPath, <<toUpperCase(LevelOf(last'.op))>>)]_vars

\* Reached: with a stream open and a record in its file, logCurl has been
\* called at a level above debug.
C1_Witness ==
  /\ StreamOpen
  /\ last.op = "logCurl"
  /\ Suppressed("logCurl")
  /\ RecordsIn(files[CurrentPath]) > 0

\* C2: when init is called with another file path while the first stream is
\* open, the last line of the first file is then a session-end marker, and
\* every record emitted afterwards is appended to the second file only.
C2_Claim ==
  /\ [][(StreamOpen /\ last'.op = "init" /\ StreamOpen'
         /\ CurrentPath' # CurrentPath)
        => LastLine(files'[CurrentPath]) = "END"]_vars
  /\ [][(StreamOpen /\ last'.op \in EmitOps)
        => \A p \in Paths \ {CurrentPath} : files'[p] = files[p]]_vars

C4_Claim ==
  [][(last'.op \in EmitOps /\ Suppressed(last'.op))
     => files' = files /\ ~last'.ser /\ ~last'.raised]_vars

\* C5 as stated: while the logger has no open stream, an emitting call
\* appends to no file and does not throw; after close() the logger has no
\* open stream.
C5_Original ==
  /\ [](last.op = "close" => ~StreamOpen)
  /\ [][(~StreamOpen /\ last'.op \in EmitOps)
        => files' = files /\ ~last'.raised]_vars

\* C5 as amended: while the logger has no open stream, an emitting call
\* appends to no file, and it throws only when JSON.stringify throws on its
\* argument; after close() the logger has no open stream.
C5_NoStreamNoWrite ==
  /\ [](last.op = "close" => ~StreamOpen)
  /\ [][(~StreamOpen /\ last'.op \in EmitOps)
        => files' = files /\ (last'.raised => last'.ser)]_vars

\* Reached: after a close that wrote its marker, an emitting call at an
\* enabled level has returned and the marker is still the file's last line.
C5_Witness ==
  /\ last.op \in EmitOps
  /\ ~Suppressed(last.op)
  /\ ~last.raised
  /\ fileStream = 0
  /\ \E p \in Paths : LastLine(files[p]) = "END"

\* C6: at most one stream created by the logger is not ended, and it is the
\* one the logger holds.
C6_OneStream ==
  /\ Cardinality(DOMAIN streams) <= 1
  /\ DOMAIN streams = IF fileStream = 0 THEN {} ELSE {fileStream}

\* Reached: a second init has replaced a stream that was open (no close has
\* written a marker, both files were opened).
C6_Witness ==
  /\ last.op = "init"
  /\ fileStream = 2
  /\ \A p \in Paths : Len(files[p]) > 0 /\ LastLine(files[p]) # "END"

\* C7 as stated: the first line appended to the file of a stream that was
\* opened is the session-start marker.
C7_Original ==
  \A s \in DOMAIN streams :
    streams[s].ok =>
      /\ Len(files[streams[s].path]) > streams[s].base
      /\ files[streams[s].path][streams[s].base + 1] = "START"

\* C7 as amended: what init appends to the file of a stream that was opened
\* starts with a line break, so the first new line is empty and the second is
\* the session-start marker; files only grow at their end, so every record
\* written through the stream comes after the marker.
C7_StartMarker ==
  /\ [](\A s \in DOMAIN streams :
          streams[s].ok =>
            /\ Len(files[streams[s].path]) >= streams[s].base + 2
            /\ files[streams[s].path][streams[s].base + 1] = ""
            /\ files[streams[s].path][streams[s].base + 2] = "START")
  /\ [][\A p \in Paths : IsPrefix(files[p], files'[p])]_vars

\* Reached: a record has been written through a stream opened on a file that
\* already had content.
C7_Witness ==
  /\ StreamOpen
  /\ streams[fileStream].base > 0
  /\ last.op \in EmitOps
  /\ Len(files[CurrentPath]) > streams[fileStream].base + 2

\* C8: close() with a stream open appends exactly one session-end marker to
\* its file, ends the stream and clears the handle; close() with no stream
\* held changes nothing; so a second close() in a row changes nothing.
C8_CloseIdempotent ==
  /\ [](last.op = "close" => fileStream = 0 /\ DOMAIN streams = {})
  /\ [][last'.op = "close" =>
         /\ UNCHANGED <<objs, config>>
         /\ IF StreamOpen THEN AppendsTo(CurrentPath, <<"END">>)
            ELSE files' = files
         /\ fileStream = 0 => UNCHANGED <<files, streams, fileStream>>]_vars

\* Reached: close() has been called with no stream held, after a close()
\* that wrote its marker.
C8_Witness ==
  /\ last.op = "close"
  /\ last.arg = FALSE
  /\ \E p \in Paths : LastLine(files[p]) = "END"

\* C9: after setDebug(true) the level is debug and isDebugEnabled() returns
\* true; after setDebug(false) the level is info and isDebugEnabled() returns
\* false, whatever the level was.
C9_SetDebug ==
  /\ [](last.op = "setDebug" =>
          /\ objs[config].level = IF last.arg.enabled THEN "debug" ELSE "info"
          /\ isDebugEnabled = last.arg.enabled)
  /\ [][(last.op = "setDebug" /\ last'.op = "isDebugEnabled")
        => last'.ret = last.arg.enabled]_vars

\* Reached: setDebug(false) has been called with the level at error and a
\* stream open.
C9_Witness ==
  /\ last.op = "setDebug"
  /\ ~last.arg.enabled
  /\ last.arg.was = "error"
  /\ objs[config].level = "info"
  /\ StreamOpen

\* C10: setDebug leaves the stream, the files and the configured file path
\* as they are, and does not change the object the caller passed to init.
C10_Claim ==
  [][last'.op = "setDebug" =>
       /\ UNCHANGED <<config, fileStream, streams, files>>
       /\ objs'[config].file = objs[config].file
       /\ CallerCfg \in DOMAIN objs => objs'[CallerCfg] = objs[CallerCfg]]_vars

=============================================================================
